---- MODULE Spec2Model ----
(***************************************************************************)
(* Model of src/src/genspn/distributions.py: the conjugate posterior       *)
(* updates, the generative sampling and the log-density evaluation of the  *)
(* mixture-model engine.                                                   *)
(*                                                                         *)
(* Conventions.  A float array element is an exact rational <<num, den>>   *)
(* in lowest terms with den > 0 (rounding is not modelled).  An array of   *)
(* shape [n_dim] is a sequence over 1..NDim, an array with a leading batch *)
(* or cluster axis is a sequence of such rows.  Array index i of the code  *)
(* is sequence index i + 1 here; cluster labels and category values keep   *)
(* the code's 0-based numbering.  Optional[int] is <<>> for None and <<n>> *)
(* for the integer n.                                                      *)
(***************************************************************************)
EXTENDS Integers, Sequences, FiniteSets, TLC

VARIABLES g, steps, call, res

vars == <<g, steps, call, res>>

(* ------------------------------ bounds --------------------------------- *)

NDim == 2
MaxBatch == 2
MaxClusters == 2
MaxSteps == 2
NCat == 2

(* --------------------------- exact rationals --------------------------- *)

Abs(n) == IF n < 0 THEN -n ELSE n

RECURSIVE GCD(_, _)
GCD(x, y) == IF y = 0 THEN x ELSE GCD(y, x % y)

Rat(n, d) ==
    LET s == IF d < 0 THEN -1 ELSE 1
        k == GCD(Abs(n), Abs(d))
    IN  <<(s * n) \div k, (s * d) \div k>>

R(n) == <<n, 1>>

RAdd(p, q) == Rat(p[1] * q[2] + q[1] * p[2], p[2] * q[2])
RSub(p, q) == Rat(p[1] * q[2] - q[1] * p[2], p[2] * q[2])
RMul(p, q) == Rat(p[1] * q[1], p[2] * q[2])
RDiv(p, q) == Rat(p[1] * q[2], p[2] * q[1])
RSq(p) == RMul(p, p)
RLeq(p, q) == p[1] * q[2] <= q[1] * p[2]
RLt(p, q) == p[1] * q[2] < q[1] * p[2]

Dims == 1..NDim

\* the array with the given elements, evaluated once (f \o <<>> = f)
Array(f) == f \o <<>>

RECURSIVE SumSeq(_)
SumSeq(s) == IF s = <<>> THEN R(0) ELSE RAdd(s[1], SumSeq(Tail(s)))

SeqsUpTo(S, n) == UNION {[1..k -> S] : k \in 0..n}

(* --------------------------- plum dispatch ----------------------------- *)
(* The type tag of an argument: "NIG", "Dirichlet", "MixedConjugate",      *)
(* "Float1"/"Float2" (float array of rank 1/2), "Int0"/"Int1"/"Int2" (int  *)
(* array of rank 0/1/2), "pyint" (a Python int), "None", "FloatIntTuple".  *)

PosteriorSignatures ==
    <<  <<"MixedConjugate", "FloatIntTuple">>,                      \* line 92
        <<"MixedConjugate", "FloatIntTuple", "Int1", "OptInt">>,    \* line 99
        <<"NIG", "Float2", "Int1", "OptInt">>,                      \* line 106
        <<"NIG", "Float2">>,                                        \* line 114
        <<"NIG", "Int0", "Float1", "Float1">>,                      \* line 122
        <<"Dirichlet", "Int2", "Int1", "OptInt">>,                  \* line 131
        <<"Dirichlet", "Int2">>  >>                                 \* line 137

IsInstance(tag, param) ==
    IF param = "OptInt" THEN tag \in {"pyint", "None"} ELSE tag = param

\* A signature whose last parameter is max_clusters:Optional[int]=None also
\* accepts a call that leaves it out.
Accepts(sig, tags) ==
    /\ \/ Len(tags) = Len(sig)
       \/ sig[Len(sig)] = "OptInt" /\ Len(tags) = Len(sig) - 1
    /\ \A i \in 1..Len(tags) : IsInstance(tags[i], sig[i])

ResolvePosterior(tags) ==
    {i \in 1..Len(PosteriorSignatures) : Accepts(PosteriorSignatures[i], tags)}

NotFoundLookupError == [ok |-> FALSE, err |-> "NotFoundLookupError"]
ValueError == [ok |-> FALSE, err |-> "ValueError"]
Ok(v) == [ok |-> TRUE, val |-> v]

(* ------------------------- jax.ops.segment_sum ------------------------- *)

RECURSIVE SumInt(_)
SumInt(s) == IF s = <<>> THEN 0 ELSE s[1] + SumInt(Tail(s))

RECURSIVE MaxOf(_)
MaxOf(s) == IF Len(s) = 1 THEN s[1]
            ELSE LET t == MaxOf(Tail(s)) IN IF s[1] > t THEN s[1] ELSE t

\* the default without its + 1
NumSegments_NoPlusOne(segment_ids, num_segments) ==
    IF num_segments = <<>> THEN MaxOf(segment_ids) ELSE num_segments[1]

\* num_segments=None makes segment_sum take max(segment_ids) + 1, which has
\* no value for an empty segment_ids (ValueError).
NumSegments(segment_ids, num_segments) ==
    IF num_segments = <<>> THEN MaxOf(segment_ids) + 1 ELSE num_segments[1]

\* the entries of column col that are scattered to segment k; an id outside
\* [0, num_segments) is scattered nowhere
RECURSIVE Gather(_, _, _)
Gather(col, segment_ids, k) ==
    IF col = <<>> THEN <<>>
    ELSE (IF Head(segment_ids) = k THEN <<Head(col)>> ELSE <<>>)
         \o Gather(Tail(col), Tail(segment_ids), k)

\* segment_sum(jnp.ones(x.shape[0], int32), c, n)
SegmentSumOnes(c, n) ==
    Array([k \in 1..n |-> SumInt(Gather([i \in 1..Len(c) |-> 1], c, k - 1))])

\* segment k of the result read as label k (1-based) instead of label k - 1
SegmentSumFloat_Shifted(x, c, n) ==
    Array([k \in 1..n |->
        Array([d \in Dims |->
            SumSeq(Gather([i \in 1..Len(x) |-> x[i][d]], c, k))])])

\* segment_sum of a float array [batch, n_dim]
SegmentSumFloat(x, c, n) ==
    Array([k \in 1..n |->
        Array([d \in Dims |->
            SumSeq(Gather([i \in 1..Len(x) |-> x[i][d]], c, k - 1))])])

(* ------------------ NormalInverseGamma posterior ----------------------- *)

\* The rule with one slip each: b taken with the prior's l, a with N // 2, m
\* divided by the prior's l.
PosteriorNIGStats_PriorL(dist, N, sum_x, sum_x_sq) ==
    LET l == Array([d \in Dims |-> RAdd(dist.l[d], R(N))])
        m == Array([d \in Dims |->
                RDiv(RAdd(RMul(dist.l[d], dist.m[d]), sum_x[d]), l[d])])
        a == Array([d \in Dims |-> RAdd(dist.a[d], Rat(N, 2))])
        b == Array([d \in Dims |->
                RAdd(dist.b[d],
                     RMul(Rat(1, 2),
                          RSub(RAdd(sum_x_sq[d], RMul(dist.l[d], RSq(dist.m[d]))),
                               RMul(dist.l[d], RSq(m[d])))))])
    IN  [m |-> m, l |-> l, a |-> a, b |-> b]

PosteriorNIGStats_FloorHalf(dist, N, sum_x, sum_x_sq) ==
    LET l == Array([d \in Dims |-> RAdd(dist.l[d], R(N))])
        m == Array([d \in Dims |->
                RDiv(RAdd(RMul(dist.l[d], dist.m[d]), sum_x[d]), l[d])])
        a == Array([d \in Dims |-> RAdd(dist.a[d], R(N \div 2))])
        b == Array([d \in Dims |->
                RAdd(dist.b[d],
                     RMul(Rat(1, 2),
                          RSub(RAdd(sum_x_sq[d], RMul(dist.l[d], RSq(dist.m[d]))),
                               RMul(l[d], RSq(m[d])))))])
    IN  [m |-> m, l |-> l, a |-> a, b |-> b]

PosteriorNIGStats_MeanByPriorL(dist, N, sum_x, sum_x_sq) ==
    LET l == Array([d \in Dims |-> RAdd(dist.l[d], R(N))])
        m == Array([d \in Dims |->
                RDiv(RAdd(RMul(dist.l[d], dist.m[d]), sum_x[d]), dist.l[d])])
        a == Array([d \in Dims |-> RAdd(dist.a[d], Rat(N, 2))])
        b == Array([d \in Dims |->
                RAdd(dist.b[d],
                     RMul(Rat(1, 2),
                          RSub(RAdd(sum_x_sq[d], RMul(dist.l[d], RSq(dist.m[d]))),
                               RMul(l[d], RSq(m[d])))))])
    IN  [m |-> m, l |-> l, a |-> a, b |-> b]

\* posterior(dist, N, sum_x, sum_x_sq), lines 121-128
PosteriorNIGStats(dist, N, sum_x, sum_x_sq) ==
    LET l == Array([d \in Dims |-> RAdd(dist.l[d], R(N))])
        m == Array([d \in Dims |->
                RDiv(RAdd(RMul(dist.l[d], dist.m[d]), sum_x[d]), l[d])])
        a == Array([d \in Dims |-> RAdd(dist.a[d], Rat(N, 2))])
        b == Array([d \in Dims |->
                RAdd(dist.b[d],
                     RMul(Rat(1, 2),
                          RSub(RAdd(sum_x_sq[d], RMul(dist.l[d], RSq(dist.m[d]))),
                               RMul(l[d], RSq(m[d])))))])
    IN  [m |-> m, l |-> l, a |-> a, b |-> b]

\* jnp.sum(x, axis=0) and jnp.sum(x ** 2, axis=0)
SumAxis0(x) == Array([d \in Dims |-> SumSeq([i \in 1..Len(x) |-> x[i][d]])])
Square(x) == Array([i \in 1..Len(x) |-> Array([d \in Dims |-> RSq(x[i][d])])])

\* posterior(dist, x), lines 113-119: N = x.shape[0] is a Python int, and the
\* call on line 119 is resolved among the posterior signatures again
PosteriorNIGBatch(dist, x) ==
    LET N == Len(x)
        sum_x == SumAxis0(x)
        sum_x_sq == SumAxis0(Square(x))
    IN  IF ResolvePosterior(<<"NIG", "pyint", "Float1", "Float1">>) = {5}
        THEN Ok(PosteriorNIGStats(dist, N, sum_x, sum_x_sq))
        ELSE NotFoundLookupError

\* posterior(dist, x, c, max_clusters), lines 105-111: the statistics of every
\* segment, then the raw-statistics rule mapped over the leading axis
PosteriorNIGClusters(dist, x, c, max_clusters) ==
    IF max_clusters = <<>> /\ c = <<>> THEN ValueError
    ELSE
    LET n == NumSegments(c, max_clusters)
        N == SegmentSumOnes(c, n)
        sum_x == SegmentSumFloat(x, c, n)
        sum_x_sq == SegmentSumFloat(Square(x), c, n)
        rows == Array([k \in 1..n |->
                    PosteriorNIGStats(dist, N[k], sum_x[k], sum_x_sq[k])])
    IN  IF ResolvePosterior(<<"NIG", "Int0", "Float1", "Float1">>) = {5}
        THEN [ok |-> TRUE,
              val |-> [m |-> Array([k \in 1..n |-> rows[k].m]),
                       l |-> Array([k \in 1..n |-> rows[k].l]),
                       a |-> Array([k \in 1..n |-> rows[k].a]),
                       b |-> Array([k \in 1..n |-> rows[k].b])],
              N |-> N, sum_x |-> sum_x, sum_x_sq |-> sum_x_sq]
        ELSE NotFoundLookupError

(* ------------------------ Dirichlet posterior -------------------------- *)

\* posterior(dist, counts), lines 136-138
PosteriorDirichletCounts(dist, counts) ==
    [alpha |-> Array([d \in Dims |->
                  Array([j \in 1..Len(dist.alpha[d]) |->
                      RAdd(dist.alpha[d][j], R(counts[d][j]))])])]

\* jax.nn.one_hot(x, num_classes): a value outside [0, num_classes) gives an
\* all-zero row
OneHot(x, num_classes) ==
    Array([i \in 1..Len(x) |->
        Array([d \in Dims |->
            Array([j \in 1..num_classes |-> IF x[i][d] = j - 1 THEN 1 ELSE 0])])])

SegmentSumOneHot(one_hot_x, c, n, num_classes) ==
    Array([k \in 1..n |->
        Array([d \in Dims |->
            Array([j \in 1..num_classes |->
                SumInt(Gather([i \in 1..Len(c) |-> one_hot_x[i][d][j]],
                              c, k - 1))])])])

\* posterior(dist, x, c, max_clusters), lines 130-134
PosteriorDirichletClusters(dist, x, c, max_clusters) ==
    IF max_clusters = <<>> /\ c = <<>> THEN ValueError
    ELSE
    LET num_classes == Len(dist.alpha[1])
        one_hot_x == OneHot(x, num_classes)
        n == NumSegments(c, max_clusters)
        counts == SegmentSumOneHot(one_hot_x, c, n, num_classes)
    IN  IF ResolvePosterior(<<"Dirichlet", "Int2">>) = {7}
        THEN [ok |-> TRUE,
              val |-> [alpha |-> Array([k \in 1..n |->
                                    PosteriorDirichletCounts(dist, counts[k]).alpha])],
              counts |-> counts]
        ELSE NotFoundLookupError

(* ------------------------------ inputs --------------------------------- *)

\* the class of a distribution object, read off its fields
TypeTag(v) ==
    IF DOMAIN v = {"m", "l", "a", "b"} THEN "NIG"
    ELSE IF DOMAIN v = {"alpha"} THEN "Dirichlet"
    ELSE IF DOMAIN v = {"nig", "dirichlet"} THEN "MixedConjugate"
    ELSE IF DOMAIN v = {"mu", "std"} THEN "Normal"
    ELSE IF DOMAIN v = {"logprobs"} THEN "Categorical"
    ELSE IF DOMAIN v = {"normal", "categorical"} THEN "Mixed"
    ELSE IF DOMAIN v = {"alpha", "d"} THEN "GEM"
    ELSE "other"

OptTag(o) == IF o = <<>> THEN "None" ELSE "pyint"

XVals == {1, 3}
Point(v) == Array([d \in Dims |-> R(v * d)])
Points == {Point(v) : v \in XVals}
Batches == SeqsUpTo(Points, MaxBatch)

Prior(mv, lv) ==
    [m |-> Array([d \in Dims |-> R(mv * d)]),
     l |-> Array([d \in Dims |-> R(lv + d - 1)]),
     a |-> Array([d \in Dims |-> Rat(d + 1, 2)]),
     b |-> Array([d \in Dims |-> R(d)])]
Priors == {Prior(0, 1), Prior(1, 2)}

StatsOf(x) == [N |-> Len(x), sum_x |-> SumAxis0(x), sum_x_sq |-> SumAxis0(Square(x))]
\* the batches whose statistics a caller feeds to the raw-statistics rule, and
\* one triple that is the statistics of no batch
UpdateBatches ==
    {<<>>, <<Point(1)>>, <<Point(1), Point(3)>>, <<Point(3), Point(3)>>}
BatchStats == {StatsOf(x) : x \in UpdateBatches}
ConstVec(n) == Array([d \in Dims |-> R(n)])
OtherStats == {[N |-> 1, sum_x |-> ConstVec(2), sum_x_sq |-> ConstVec(0)]}

\* the cluster labels a caller uses, and the max_clusters it passes
Labels == 0..(MaxClusters - 1)
MaxClustersArgs == {<<>>} \cup {<<n>> : n \in 1..MaxClusters}

\* discrete observations: category values 0..NCat, the last one out of range
DPoint(v) == Array([d \in Dims |-> (v + d - 1) % (NCat + 1)])
DPoints == {DPoint(v) : v \in 0..NCat}
DBatches == SeqsUpTo(DPoints, MaxBatch)

DirPrior(v) ==
    [alpha |-> Array([d \in Dims |-> Array([j \in 1..NCat |-> Rat(v + j + d, 2)])])]
DirPriors == {DirPrior(v) : v \in {0, 1}}

(* --------------------------- sampling ---------------------------------- *)
(* A random key is the path of splits that derived it from a root key.     *)
(* A primitive draw is the term naming the primitive, its key and its      *)
(* parameters; uses lists the jax.random calls made, each with its key.    *)

Split(key) == <<key \o <<0>>, key \o <<1>>>>

\* sample(key, Dirichlet), lines 65-68
SampleDirichlet(key, dist) ==
    [val |-> [logprobs |-> [log |-> [prim |-> "dirichlet", key |-> key,
                                     alpha |-> dist.alpha]]],
     uses |-> << <<"dirichlet", key>> >>]

\* sample(key, NormalInverseGamma), lines 70-81
SampleNIG(key, dist) ==
    LET keys == Split(key)
        log_lambda == [minus |-> <<[prim |-> "loggamma", key |-> key, a |-> dist.a],
                                   [log |-> dist.b]>>]
        log_sigma == [minus |-> <<[neg |-> [log |-> dist.l]], log_lambda>>]
        std == [exp |-> [half |-> log_sigma]]
        mu == [plus |-> <<dist.m,
                          [times |-> <<[prim |-> "normal", key |-> keys[2]], std>>]>>]
    IN  [val |-> [mu |-> mu, std |-> [exp |-> [half |-> [neg |-> log_lambda]]]],
         uses |-> << <<"split", key>>, <<"loggamma", key>>, <<"normal", keys[2]>> >>]

\* sample(key, MixedConjugate), lines 83-89
SampleMixedConjugate(key, dist) ==
    LET keys == Split(key)
        normal == SampleNIG(keys[1], dist.nig)
        categorical == SampleDirichlet(keys[2], dist.dirichlet)
    IN  [val |-> [normal |-> normal.val, categorical |-> categorical.val],
         uses |-> << <<"split", key>> >> \o normal.uses \o categorical.uses]

\* sample, resolved on the class of dist
Sample(key, dist) ==
    CASE TypeTag(dist) = "Dirichlet" -> SampleDirichlet(key, dist)
      [] TypeTag(dist) = "NIG" -> SampleNIG(key, dist)
      [] TypeTag(dist) = "MixedConjugate" -> SampleMixedConjugate(key, dist)

(* ----------------------------- log density ----------------------------- *)
(* A log-density value q + ln(p) - (n/2) ln(2 pi), with q and p rational   *)
(* and n a natural number, is the record [q, p, n]; an element ln(p) of a  *)
(* logprobs array is Ln(p).                                                *)

Ln(p) == [q |-> R(0), p |-> p, n |-> 0]
LAdd(u, v) == [q |-> RAdd(u.q, v.q), p |-> RMul(u.p, v.p), n |-> u.n + v.n]

RECURSIVE LSum(_)
LSum(s) == IF s = <<>> THEN Ln(R(1)) ELSE LAdd(s[1], LSum(Tail(s)))

\* logpdf(Normal, x), lines 140-142
LogpdfNormal(dist, x) ==
    LSum([d \in 1..Len(x) |->
            [q |-> RMul(Rat(-1, 2), RSq(RDiv(RSub(x[d], dist.mu[d]), dist.std[d]))),
             p |-> RDiv(R(1), dist.std[d]),
             n |-> 1]])

\* array[..., i] for an integer array index i on an axis of length n: a
\* negative i counts from the end, and what is then out of bounds is clamped
\* into [0, n)
ClampIndex(i, n) ==
    LET j == IF i < 0 THEN i + n ELSE i
    IN  IF j < 0 THEN 0 ELSE IF j > n - 1 THEN n - 1 ELSE j

\* logpdf(Categorical, x), lines 144-146
LogpdfCategorical(dist, x) ==
    LSum([i \in 1..Len(x) |->
            dist.logprobs[i][ClampIndex(x[i], Len(dist.logprobs[i])) + 1]])

\* logpdf(Mixed, (x0, x1)), lines 148-150
LogpdfMixed(dist, x) ==
    LAdd(LogpdfNormal(dist.normal, x[1]), LogpdfCategorical(dist.categorical, x[2]))

\* logpdf(dist, x), resolved on the classes of dist and of the datapoint
LogpdfPoint(dist, x) ==
    CASE TypeTag(dist) = "Normal" /\ x.kind = "Float1" -> Ok(LogpdfNormal(dist, x.v))
      [] TypeTag(dist) = "Categorical" /\ x.kind = "Int1" ->
            Ok(LogpdfCategorical(dist, x.v))
      [] TypeTag(dist) = "Mixed" /\ x.kind = "FloatIntTuple" ->
            Ok(LogpdfMixed(dist, x.v))
      [] OTHER -> NotFoundLookupError

\* __getitem__ of Normal (lines 24-25), Categorical (lines 30-31) and Mixed
\* (lines 37-38); key is a 0-based cluster index
GetItemNormal(dist, key) == [mu |-> dist.mu[key + 1], std |-> dist.std[key + 1]]
GetItemCategorical(dist, key) == [logprobs |-> dist.logprobs[0 + 1]]
GetItemMixed(dist, key) ==
    [normal |-> GetItemNormal(dist.normal, key),
     categorical |-> GetItemCategorical(dist.categorical, key)]
GetItem(dist, key) ==
    CASE TypeTag(dist) = "Normal" -> GetItemNormal(dist, key)
      [] TypeTag(dist) = "Categorical" -> GetItemCategorical(dist, key)
      [] TypeTag(dist) = "Mixed" -> GetItemMixed(dist, key)

\* logpdf(F, x, c), lines 159-162
LogpdfCluster(dist, x, c) == LogpdfPoint(GetItem(dist, c), x)

\* betas of lines 154-155 with the entry at index 0 left as the general
\* formula gives it, pi[0 - 1] being the last element of pi
GEMBetas_NoOverride(pi) ==
    Array([i \in 1..Len(pi) |->
        RSub(R(1), RDiv(pi[i], pi[IF i = 1 THEN Len(pi) ELSE i - 1]))])

\* lines 154-155: 1 - pi[i] / pi[i-1] for every i, index -1 being the last
\* element, then betas[0] set to pi[0]
GEMBetas(pi) ==
    LET betas == Array([i \in 1..Len(pi) |->
                    RSub(R(1), RDiv(pi[i], pi[IF i = 1 THEN Len(pi) ELSE i - 1]))])
    IN  [betas EXCEPT ![1] = pi[1]]

\* jax.scipy.stats.beta.logpdf(x, a, b), kept as a term
BetaLogpdf(x, a, b) == [beta_logpdf |-> x, a |-> a, b |-> b]

\* logpdf(GEM, pi, K), lines 152-157: the sum of logprobs[:K], kept as the
\* sequence of its terms
LogpdfGEM(dist, pi, K) ==
    LET betas == GEMBetas(pi)
        logprobs == [i \in 1..Len(pi) |->
                        BetaLogpdf(betas[i], RSub(R(1), dist.d),
                                   RAdd(dist.alpha, RMul(R(1 + (i - 1)), dist.d)))]
    IN  SubSeq(logprobs, 1, IF K < Len(pi) THEN K ELSE Len(pi))

\* random keys a caller passes
Keys == {<<0>>, <<1>>}

MixedPriors == {[nig |-> p, dirichlet |-> q] : p \in Priors, q \in DirPriors}

\* the feature parameters of cluster k (0-based) in family v, and the batched
\* containers that stack them along the leading axis
Clusters == 0..(MaxClusters - 1)
NormalAt(v, k) ==
    [mu |-> Array([d \in Dims |-> R(v + k + d)]),
     std |-> Array([d \in Dims |-> R(k + 1)])]
CategoricalAt(v, k) ==
    [logprobs |->
        Array([d \in Dims |->
            Array([j \in 1..NCat |->
                Ln(Rat(2 * (v + k + d + j), NCat * (2 * (v + k + d) + NCat + 1)))])])]
MixedAt(v, k) == [normal |-> NormalAt(v, k), categorical |-> CategoricalAt(v, k)]

NormalF(v) ==
    [mu |-> Array([k \in 1..MaxClusters |-> NormalAt(v, k - 1).mu]),
     std |-> Array([k \in 1..MaxClusters |-> NormalAt(v, k - 1).std])]
CategoricalF(v) ==
    [logprobs |-> Array([k \in 1..MaxClusters |-> CategoricalAt(v, k - 1).logprobs])]
MixedF(v) == [normal |-> NormalF(v), categorical |-> CategoricalF(v)]

Families == {0, 1}
FTypes == {"Normal", "Categorical", "Mixed"}
SingleF(t, v, k) ==
    CASE t = "Normal" -> NormalAt(v, k)
      [] t = "Categorical" -> CategoricalAt(v, k)
      [] t = "Mixed" -> MixedAt(v, k)
BatchedF(t, v) ==
    CASE t = "Normal" -> NormalF(v)
      [] t = "Categorical" -> CategoricalF(v)
      [] t = "Mixed" -> MixedF(v)

\* datapoints: a float vector, an integer vector (category values -1..NCat,
\* of which -1 and NCat are outside [0, NCat)), or a pair of the two
IntPoints == DPoints \cup {Array([d \in Dims |-> -1])}
DataKinds == {"Float1", "Int1", "FloatIntTuple"}
DataOf(kind) ==
    CASE kind = "Float1" -> Points
      [] kind = "Int1" -> IntPoints
      [] kind = "FloatIntTuple" -> Points \X IntPoints

\* GEM hyperparameters and mixing weights (positive, summing to at most 1)
GEMs == {[alpha |-> R(al), d |-> dd] : al \in {1, 2}, dd \in {R(0), Rat(1, 2)}}
PiVals == {R(1), Rat(1, 2), Rat(1, 4)}
PiInputs ==
    {pi \in UNION {[1..n -> PiVals] : n \in 1..(MaxClusters + 1)} :
        RLeq(SumSeq(pi), R(1))}

(* ------------------------------ actions -------------------------------- *)

NoCall == [op |-> "none"]
NoRes == [ok |-> FALSE, err |-> "none"]

\* A caller makes at most MaxSteps calls: updates of the prior it holds, each
\* result stored in g, and then at most one call that only reads g.
Holding == steps < MaxSteps /\ call.op \in {"none", "posterior_stats"}

\* The caller updates its prior with raw statistics, N being an int array of
\* rank 0, and keeps the result.
PosteriorStats ==
    /\ Holding
    /\ \E s \in BatchStats \cup OtherStats :
         /\ ResolvePosterior(<<TypeTag(g), "Int0", "Float1", "Float1">>) = {5}
         /\ call' = [op |-> "posterior_stats", dist |-> g, N |-> s.N,
                     sum_x |-> s.sum_x, sum_x_sq |-> s.sum_x_sq]
         /\ g' = PosteriorNIGStats(g, s.N, s.sum_x, s.sum_x_sq)
         /\ res' = Ok(g')
    /\ steps' = steps + 1

PosteriorBatch ==
    /\ Holding
    /\ \E x \in Batches :
         /\ ResolvePosterior(<<TypeTag(g), "Float2">>) = {4}
         /\ call' = [op |-> "posterior_batch", dist |-> g, x |-> x]
         /\ res' = PosteriorNIGBatch(g, x)
    /\ steps' = steps + 1
    /\ UNCHANGED g

PosteriorClusters ==
    /\ Holding
    /\ \E x \in Batches, mc \in MaxClustersArgs :
         \E c \in [1..Len(x) -> Labels] :
           /\ ResolvePosterior(<<TypeTag(g), "Float2", "Int1", OptTag(mc)>>) = {3}
           /\ call' = [op |-> "posterior_clusters", dist |-> g, x |-> x, c |-> c, max_clusters |-> mc]
           /\ res' = PosteriorNIGClusters(g, x, c, mc)
    /\ steps' = steps + 1
    /\ UNCHANGED g

PosteriorCategoricalClusters ==
    /\ Holding
    /\ \E x \in DBatches, mc \in MaxClustersArgs :
         \E c \in [1..Len(x) -> Labels] :
           /\ ResolvePosterior(<<TypeTag(g), "Int2", "Int1", OptTag(mc)>>) = {6}
           /\ call' = [op |-> "posterior_clusters", dist |-> g, x |-> x, c |-> c, max_clusters |-> mc]
           /\ res' = PosteriorDirichletClusters(g, x, c, mc)
    /\ steps' = steps + 1
    /\ UNCHANGED g

SampleCall ==
    /\ Holding
    /\ \E key \in Keys :
         /\ call' = [op |-> "sample", key |-> key, dist |-> g]
         /\ res' = [ok |-> TRUE, val |-> Sample(key, g).val, uses |-> Sample(key, g).uses]
    /\ steps' = steps + 1
    /\ UNCHANGED g

LogpdfPointCall ==
    /\ Holding
    /\ \E t \in FTypes, v \in Families, k \in Clusters, kind \in DataKinds :
         \E xv \in DataOf(kind) :
           LET dist == SingleF(t, v, k)
               x == [kind |-> kind, v |-> xv]
           IN  /\ call' = [op |-> "logpdf_point", dist |-> dist, x |-> x]
               /\ res' = LogpdfPoint(dist, x)
    /\ steps' = steps + 1
    /\ UNCHANGED g

LogpdfClusterCall ==
    /\ Holding
    /\ \E t \in FTypes, v \in Families, kind \in DataKinds, c \in Clusters :
         \E xv \in DataOf(kind) :
           LET dist == BatchedF(t, v)
               x == [kind |-> kind, v |-> xv]
           IN  /\ call' = [op |-> "logpdf_cluster", dist |-> dist, x |-> x, c |-> c]
               /\ res' = LogpdfCluster(dist, x, c)
    /\ steps' = steps + 1
    /\ UNCHANGED g

LogpdfGEMCall ==
    /\ Holding
    /\ \E dist \in GEMs, pi \in PiInputs :
         \E K \in 1..(Len(pi) + 1) :
           /\ call' = [op |-> "logpdf_gem", dist |-> dist, pi |-> pi, K |-> K]
           /\ res' = Ok(LogpdfGEM(dist, pi, K))
    /\ steps' = steps + 1
    /\ UNCHANGED g

(* Spec: a caller that holds a NormalInverseGamma prior and updates it.    *)
Init ==
    /\ g \in Priors
    /\ steps = 0
    /\ call = NoCall
    /\ res = NoRes

Next == PosteriorStats \/ PosteriorBatch \/ PosteriorClusters

Spec == Init /\ [][Next]_vars

(* SpecClusters: the per-cluster posteriors of either prior family.        *)
InitClusters ==
    /\ g \in Priors \cup DirPriors
    /\ steps = 0
    /\ call = NoCall
    /\ res = NoRes

NextClusters == PosteriorClusters \/ PosteriorCategoricalClusters

SpecClusters == InitClusters /\ [][NextClusters]_vars

(* SpecEval: sampling from a prior and log-density evaluation.             *)
InitEval ==
    /\ g \in Priors \cup DirPriors \cup MixedPriors
    /\ steps = 0
    /\ call = NoCall
    /\ res = NoRes

NextEval == SampleCall \/ LogpdfPointCall \/ LogpdfClusterCall \/ LogpdfGEMCall

SpecEval == InitEval /\ [][NextEval]_vars

(* ============================ properties =============================== *)

Two == R(2)

\* C1: posterior(NormalInverseGamma, N, sum_x, sum_x_sq) returns in every
\* feature dimension l' = l + N, m' = (l m + sum_x) / l', a' = a + N/2 and
\* b' = b + (sum_x_sq + l m^2 - l' m'^2) / 2; for the prior (0, 1, 1, 1) and the
\* statistics (2, 4, 10) that is l' = 3, m' = 4/3, a' = 2, b' = 10/3.
C1_PosteriorRule ==
    call.op = "posterior_stats" =>
      /\ res.ok
      /\ \A d \in Dims :
           LET p == call.dist
               q == res.val
           IN  /\ q.l[d] = RAdd(p.l[d], R(call.N))
               /\ RMul(q.m[d], q.l[d]) = RAdd(RMul(p.l[d], p.m[d]), call.sum_x[d])
               /\ RMul(Two, RSub(q.a[d], p.a[d])) = R(call.N)
               /\ RMul(Two, RSub(q.b[d], p.b[d])) =
                    RSub(RAdd(call.sum_x_sq[d], RMul(p.l[d], RSq(p.m[d]))),
                         RMul(q.l[d], RSq(q.m[d])))
               /\ ( /\ <<p.m[d], p.l[d], p.a[d], p.b[d]>> = <<R(0), R(1), R(1), R(1)>>
                    /\ <<call.N, call.sum_x[d], call.sum_x_sq[d]>> = <<2, R(4), R(10)>> )
                  => <<q.l[d], q.m[d], q.a[d], q.b[d]>> = <<R(3), <<4, 3>>, R(2), <<10, 3>>>>

C1_Witness ==
    /\ call.op = "posterior_stats"
    /\ <<call.dist.m[1], call.dist.l[1], call.dist.a[1], call.dist.b[1]>>
         = <<R(0), R(1), R(1), R(1)>>
    /\ <<call.N, call.sum_x[1], call.sum_x_sq[1]>> = <<2, R(4), R(10)>>
    /\ res.val.m[1] = <<4, 3>>
    /\ res.val.b[1] = <<10, 3>>

\* C2: posterior(prior, x) with a raw batch succeeds and returns what
\* posterior(prior, N, sum_x, sum_x_sq) returns for the batch's count, sum and
\* sum of squares.
C2_RawBatchIsStatsRule ==
    call.op = "posterior_batch" =>
      /\ res.ok
      /\ res.val = PosteriorNIGStats(call.dist, Len(call.x), SumAxis0(call.x),
                                     SumAxis0(Square(call.x)))

VAdd(u, v) == [d \in Dims |-> RAdd(u[d], v[d])]

\* C5: two updates in a row, with (N1, sum_x1, sum_x_sq1) and then with
\* (N2, sum_x2, sum_x_sq2), give the posterior of one update of the first prior
\* with (N1 + N2, sum_x1 + sum_x2, sum_x_sq1 + sum_x_sq2), in all four fields.
C5_Additivity ==
    [][ (call.op = "posterior_stats" /\ call'.op = "posterior_stats")
        => /\ call'.dist = res.val
           /\ res'.val = PosteriorNIGStats(call.dist, call.N + call'.N,
                                           VAdd(call.sum_x, call'.sum_x),
                                           VAdd(call.sum_x_sq, call'.sum_x_sq)) ]_vars

C5_Witness ==
    /\ steps = 2
    /\ call.op = "posterior_stats"
    /\ call.N = 1
    /\ call.dist \notin Priors
    /\ call.dist.l[1] = R(3)

Valid(p) ==
    \A d \in Dims : RLt(R(0), p.l[d]) /\ RLt(R(0), p.a[d]) /\ RLt(R(0), p.b[d])

Grown(p, q) ==
    \A d \in Dims :
      RLeq(p.l[d], q.l[d]) /\ RLeq(p.a[d], q.a[d]) /\ RLeq(p.b[d], q.b[d])

IsBatchStats(N, sum_x, sum_x_sq) ==
    \E x \in Batches \cup UpdateBatches :
       /\ Len(x) = N
       /\ \A d \in Dims :
            /\ SumSeq([i \in 1..Len(x) |-> x[i][d]]) = sum_x[d]
            /\ SumSeq([i \in 1..Len(x) |-> RSq(x[i][d])]) = sum_x_sq[d]

RowOf(v, k) == [m |-> v.m[k], l |-> v.l[k], a |-> v.a[k], b |-> v.b[k]]

\* C10: from a prior with l, a, b > 0 and the count, sum and sum of squares of
\* an actual batch (the statistics of every cluster, empty ones too), the
\* posterior has l' >= l, a' >= a, b' >= b, so l', a', b' > 0, and equals the
\* prior when N = 0; so every prior reached by such updates is valid.
C10_StaysValid ==
    /\ ( /\ call.op = "posterior_stats"
         /\ Valid(call.dist)
         /\ IsBatchStats(call.N, call.sum_x, call.sum_x_sq) )
       => /\ Valid(res.val)
          /\ Grown(call.dist, res.val)
          /\ g = res.val
          /\ call.N = 0 => res.val = call.dist
    /\ ( /\ call.op = "posterior_clusters"
         /\ TypeTag(call.dist) = "NIG"
         /\ res.ok
         /\ Valid(call.dist) )
       => \A k \in 1..Len(res.val.l) :
            /\ Valid(RowOf(res.val, k))
            /\ Grown(call.dist, RowOf(res.val, k))
            /\ (\A i \in 1..Len(call.c) : call.c[i] # k - 1)
                 => RowOf(res.val, k) = call.dist

C10_Witness ==
    /\ call.op = "posterior_clusters"
    /\ TypeTag(call.dist) = "NIG"
    /\ call.dist \notin Priors
    /\ res.ok
    /\ Len(res.val.l) = 2
    /\ res.N = <<0, 2>>
    /\ RLt(call.dist.b[1], res.val.b[2][1])

\* the rows of the posterior arrays and of the statistics the call computed
LeadingDims(r) ==
    IF TypeTag(call.dist) = "NIG"
    THEN {Len(r.val.m), Len(r.val.l), Len(r.val.a), Len(r.val.b),
          Len(r.N), Len(r.sum_x), Len(r.sum_x_sq)}
    ELSE {Len(r.val.alpha), Len(r.counts)}

ZeroStatistics(r, k) ==
    IF TypeTag(call.dist) = "NIG"
    THEN /\ r.N[k] = 0
         /\ \A d \in Dims : r.sum_x[k][d] = R(0) /\ r.sum_x_sq[k][d] = R(0)
    ELSE \A d \in Dims : \A j \in 1..Len(r.counts[k][d]) : r.counts[k][d][j] = 0

EmptyCluster(k) == \A i \in 1..Len(call.c) : call.c[i] # k

\* C3 as stated, read on non-empty batches: with labels in [0, K) the
\* per-cluster posteriors have a leading dimension of max_clusters when it is
\* given and of K when it is not, whichever labels occur, and an empty cluster
\* has all-zero statistics.
C3_LeadingDimIsK ==
    call.op = "posterior_clusters" =>
      \A K \in 1..MaxClusters :
        (call.c # <<>> /\ \A i \in 1..Len(call.c) : call.c[i] < K) =>
          /\ res.ok
          /\ LeadingDims(res) =
               {IF call.max_clusters = <<>> THEN K ELSE call.max_clusters[1]}
          /\ \A k \in 1..Len(res.val[CHOOSE f \in DOMAIN res.val : TRUE]) :
               EmptyCluster(k - 1) => ZeroStatistics(res, k)

\* C3, amended: the leading dimension is max_clusters when it is given; when it
\* is not given it is the greatest label of c plus one for a non-empty batch,
\* and the call fails for an empty batch; an empty cluster of the result has
\* all-zero statistics.
C3_LeadingDim ==
    call.op = "posterior_clusters" =>
      IF call.max_clusters = <<>> /\ call.c = <<>>
      THEN ~res.ok
      ELSE /\ res.ok
           /\ \E n \in 0..(MaxClusters + 1) :
                /\ LeadingDims(res) = {n}
                /\ IF call.max_clusters # <<>>
                   THEN n = call.max_clusters[1]
                   ELSE /\ \E i \in 1..Len(call.c) : call.c[i] = n - 1
                        /\ \A i \in 1..Len(call.c) : call.c[i] <= n - 1
                /\ \A k \in 1..n : EmptyCluster(k - 1) => ZeroStatistics(res, k)

\* a label below K - 1 is the greatest one, max_clusters not given, and the
\* result has an empty cluster
C3_Witness ==
    /\ call.op = "posterior_clusters"
    /\ call.max_clusters = <<>>
    /\ call.c = <<1, 1>>
    /\ res.ok
    /\ LeadingDims(res) = {2}
    /\ ZeroStatistics(res, 1)
    /\ ~ZeroStatistics(res, 2)

\* the sum of f over the index set S, in any order
RECURSIVE SetSum(_, _)
SetSum(S, f) ==
    IF S = {} THEN R(0)
    ELSE LET i == CHOOSE j \in S : TRUE IN RAdd(f[i], SetSum(S \ {i}, f))

Members(k) == {i \in 1..Len(call.c) : call.c[i] = k}

\* C4: row k of the per-cluster posterior is the scalar rule applied to the
\* prior with the statistics of exactly the points whose label is k: their
\* count, sum and sum of squares (NormalInverseGamma), their per-dimension
\* category counts (Dirichlet).
C4_BatchedIsPerCluster ==
    (call.op = "posterior_clusters" /\ res.ok) =>
      IF TypeTag(call.dist) = "NIG"
      THEN \A k \in 1..Len(res.val.m) :
             LET S == Members(k - 1)
                 sx == [d \in Dims |-> SetSum(S, [i \in S |-> call.x[i][d]])]
                 sxx == [d \in Dims |-> SetSum(S, [i \in S |-> RSq(call.x[i][d])])]
             IN  RowOf(res.val, k) = PosteriorNIGStats(call.dist, Cardinality(S), sx, sxx)
      ELSE \A k \in 1..Len(res.val.alpha) :
             LET S == Members(k - 1)
                 cnt == [d \in Dims |->
                           [j \in 1..Len(call.dist.alpha[d]) |->
                               Cardinality({i \in S : call.x[i][d] = j - 1})]]
             IN  res.val.alpha[k] = PosteriorDirichletCounts(call.dist, cnt).alpha

C4_Witness ==
    /\ call.op = "posterior_clusters"
    /\ TypeTag(call.dist) = "NIG"
    /\ res.ok
    /\ call.c = <<1, 0>>
    /\ call.x[1] # call.x[2]
    /\ res.val.m[1] # res.val.m[2]

C4_WitnessDirichlet ==
    /\ call.op = "posterior_clusters"
    /\ TypeTag(call.dist) = "Dirichlet"
    /\ res.ok
    /\ call.c = <<1, 0>>
    /\ call.x[1] # call.x[2]
    /\ res.val.alpha[1] # res.val.alpha[2]

\* cluster c's own sub-parameters of a batched container
OwnParameters(dist, c) ==
    CASE TypeTag(dist) = "Normal" -> [mu |-> dist.mu[c + 1], std |-> dist.std[c + 1]]
      [] TypeTag(dist) = "Categorical" -> [logprobs |-> dist.logprobs[c + 1]]
      [] TypeTag(dist) = "Mixed" ->
            [normal |-> [mu |-> dist.normal.mu[c + 1], std |-> dist.normal.std[c + 1]],
             categorical |-> [logprobs |-> dist.categorical.logprobs[c + 1]]]

\* C6: logpdf(F, x, c) is the single-cluster logpdf with cluster c's own
\* sub-parameters, F[c] being those parameters in an instance of F's type;
\* stated for the calls whose datapoint has the form F's family scores.
C6_ClusterOwnParameters ==
    (call.op = "logpdf_cluster" /\ LogpdfPoint(OwnParameters(call.dist, call.c), call.x).ok) =>
      /\ GetItem(call.dist, call.c) = OwnParameters(call.dist, call.c)
      /\ res = LogpdfPoint(OwnParameters(call.dist, call.c), call.x)

InRange(x, dist) ==
    \A i \in 1..Len(x) : x[i] \in 0..(Len(dist.logprobs[i]) - 1)

\* C7: logpdf(Categorical, x) is the sum over dimensions i of logprobs[i, x_i]
\* when every x_i is in [0, K), and fails, returning no value, when some x_i
\* is outside [0, K).
C7_OutOfRangeFails ==
    ( /\ call.op = "logpdf_point"
      /\ TypeTag(call.dist) = "Categorical"
      /\ call.x.kind = "Int1" )
    => IF InRange(call.x.v, call.dist)
       THEN /\ res.ok
            /\ res.val = LSum([i \in 1..Len(call.x.v) |->
                                  call.dist.logprobs[i][call.x.v[i] + 1]])
       ELSE ~res.ok

Draws(uses) == {i \in 1..Len(uses) : uses[i][1] # "split"}

\* C8: in sample(key, NormalInverseGamma) and sample(key, MixedConjugate) no
\* key is passed to more than one consumer, and a key that was split is not
\* used for a primitive draw.
C8_KeysNotReused ==
    (call.op = "sample" /\ TypeTag(call.dist) \in {"NIG", "MixedConjugate"}) =>
      /\ \A i, j \in 1..Len(res.uses) : i # j => res.uses[i][2] # res.uses[j][2]
      /\ \A i \in Draws(res.uses) :
           \A j \in 1..Len(res.uses) \ Draws(res.uses) :
              res.uses[i][2] # res.uses[j][2]

SpecBeta(pi, i) == IF i = 1 THEN pi[1] ELSE RSub(R(1), RDiv(pi[i], pi[i - 1]))

\* C9: for K <= len(pi), logpdf(GEM(alpha, d), pi, K) sums exactly the K terms
\* i = 0..K-1, term i the Beta(1 - d, alpha + (i + 1) d) log-density of beta_i,
\* beta_0 = pi_0 and beta_i = 1 - pi_i / pi_{i-1}; it is the same for every pi
\* with the same first K entries.
C9_GEMTerms ==
    (call.op = "logpdf_gem" /\ call.K <= Len(call.pi)) =>
      /\ res.ok
      /\ Len(res.val) = call.K
      /\ \A i \in 1..call.K :
           res.val[i] = BetaLogpdf(SpecBeta(call.pi, i),
                                   RSub(R(1), call.dist.d),
                                   RAdd(call.dist.alpha, RMul(R(i), call.dist.d)))
      /\ \A pi2 \in PiInputs :
           (Len(pi2) >= call.K /\ SubSeq(pi2, 1, call.K) = SubSeq(call.pi, 1, call.K))
             => LogpdfGEM(call.dist, pi2, call.K) = res.val

C9_Witness ==
    /\ call.op = "logpdf_gem"
    /\ call.K = 2
    /\ Len(call.pi) = 3
    /\ call.pi[3] # call.pi[1]
    /\ call.pi[2] # call.pi[1]
    /\ call.dist.d # R(0)
    /\ res.val[1].beta_logpdf = call.pi[1]
    /\ res.val[2].b = RAdd(call.dist.alpha, R(1))
====
